---- MODULE Spec2Model ----
(***************************************************************************)
(* Model of lib/modules/manager/pep621/processors/rye.ts:                  *)
(* RyeProcessor.updateArtifacts, generateCMDs and addPackageToCMDRecord.   *)
(*                                                                         *)
(* Strings that the code takes apart or puts together (depName,            *)
(* packageName, the command strings) are sequences of symbols; a symbol     *)
(* stands for a run of characters holding neither '/' nor ' ', or for one  *)
(* of these two separators.  split and join are computed on them.          *)
(* File contents and error messages are opaque strings.                    *)
(***************************************************************************)
EXTENDS Integers, Sequences, FiniteSets, TLC

\* ---------------------------------------------------------------- bounds
\* longest upgrade set (updatedDeps) the model draws
MaxDeps == 2
\* successive invocations of updateArtifacts on the same manifest
MaxRuns == 2

\* ------------------------------------------------------------- constants
ryeUpdateLockCMD == <<"rye lock">>
ryeUpdatePackageCMD == <<"rye lock --update">>
TEMPORARY_ERROR == "temporary-error"

\* depTypes of ../utils as used by rye.ts and rye.spec.ts
depTypes ==
  [dependencies |-> "project.dependencies",
   optionalDependencies |-> "project.optional-dependencies",
   ryeDevDependencies |-> "tool.rye.dev-dependencies"]

\* JavaScript undefined, as a value a name list can hold
Undefined == <<"#undefined">>
\* readLocalFile's null for a file that does not exist
Absent == "null"
\* a local that no statement has assigned yet
Unread == "unread"

lockFileName == "requirements.lock"
devLockFileName == "requirements-dev.lock"
LockFiles == {lockFileName, devLockFileName}

\* ---------------------------------------------------------------- inputs
Contents == {"test content", "changed test content"}
MaybeContents == Contents \cup {Absent}
Messages == {TEMPORARY_ERROR, "test error", "disk full"}
UpdateTypes == {"lockFileMaintenance", "minor"}

\* upgrade descriptors, shaped as the ones of rye.spec.ts
DepPool ==
  { [depType |-> depTypes.dependencies, depName |-> <<"dep1">>,
     packageName |-> <<"dep1">>],
    [depType |-> depTypes.dependencies, depName |-> <<"dep2">>,
     packageName |-> <<"dep2">>],
    [depType |-> depTypes.optionalDependencies,
     depName |-> <<"group1", "/", "dep3">>, packageName |-> Undefined],
    [depType |-> depTypes.ryeDevDependencies,
     depName |-> <<"group2", "/", "dep5">>, packageName |-> <<"dep5">>],
    [depType |-> depTypes.ryeDevDependencies,
     depName |-> <<"group2", "/", "dep6">>, packageName |-> <<"dep6">>],
    [depType |-> depTypes.ryeDevDependencies,
     depName |-> <<"group3", "/", "dep7">>, packageName |-> <<"dep7">>],
    [depType |-> "unknown", depName |-> <<"dep9">>,
     packageName |-> <<"dep9">>] }

UpgradeSets == UNION { [1..n -> DepPool] : n \in 0..MaxDeps }

\* ------------------------------------------------------- string helpers
\* String.prototype.split(sep): the segments between occurrences of sep
RECURSIVE SplitFrom(_, _, _)
SplitFrom(s, sep, cur) ==
  IF s = <<>> THEN <<cur>>
  ELSE IF Head(s) = sep THEN <<cur>> \o SplitFrom(Tail(s), sep, <<>>)
  ELSE SplitFrom(Tail(s), sep, Append(cur, Head(s)))

Split(s, sep) == SplitFrom(s, sep, <<>>)

\* Array.prototype.join(sep): undefined elements render as the empty string
RECURSIVE Join(_, _)
Join(list, sep) ==
  IF list = <<>> THEN <<>>
  ELSE LET h == IF Head(list) = Undefined THEN <<>> ELSE Head(list)
       IN IF Len(list) = 1 THEN h ELSE h \o <<sep>> \o Join(Tail(list), sep)

\* ------------------------------------------------------------ generateCMDs
\* packagesByCMD is a Record<string, string[]>: its keys are enumerated in
\* insertion order, so it is a sequence of [key, packages] entries.
HasKey(packagesByCMD, commandPrefix) ==
  \E i \in DOMAIN packagesByCMD : packagesByCMD[i].key = commandPrefix

\* variant: the name is put in front of the list (unshift for push)
addPackageToCMDRecord_unshift(packagesByCMD, commandPrefix, packageName) ==
  LET ensured ==
        IF HasKey(packagesByCMD, commandPrefix) THEN packagesByCMD
        ELSE Append(packagesByCMD, [key |-> commandPrefix, packages |-> <<>>])
  IN [i \in DOMAIN ensured |->
        IF ensured[i].key = commandPrefix
        THEN [ensured[i] EXCEPT !.packages = <<packageName>> \o @]
        ELSE ensured[i]]

addPackageToCMDRecord(packagesByCMD, commandPrefix, packageName) ==
  LET ensured ==
        IF HasKey(packagesByCMD, commandPrefix) THEN packagesByCMD
        ELSE Append(packagesByCMD, [key |-> commandPrefix, packages |-> <<>>])
  IN [i \in DOMAIN ensured |->
        IF ensured[i].key = commandPrefix
        THEN [ensured[i] EXCEPT !.packages = Append(@, packageName)]
        ELSE ensured[i]]

\* const [_, name] = dep.depName!.split('/')
SecondComponent(depName) ==
  LET parts == Split(depName, "/")
  IN IF Len(parts) >= 2 THEN parts[2] ELSE Undefined

\* variant: only the known non-dev depTypes use packageName; any other
\* depType is split like a dev dependency
PackageOf_knownOnly(dep) ==
  IF dep.depType \in {depTypes.dependencies, depTypes.optionalDependencies}
  THEN dep.packageName
  ELSE SecondComponent(dep.depName)

\* the switch on dep.depType: the package name pushed for one descriptor
PackageOf(dep) ==
  IF dep.depType = depTypes.ryeDevDependencies
  THEN SecondComponent(dep.depName)
  ELSE dep.packageName

\* the first loop of generateCMDs
RECURSIVE CollectPackages(_, _)
CollectPackages(deps, packagesByCMD) ==
  IF deps = <<>> THEN packagesByCMD
  ELSE CollectPackages(
         Tail(deps),
         addPackageToCMDRecord(packagesByCMD, ryeUpdatePackageCMD,
                               PackageOf(Head(deps))))

\* `${commandPrefix} ${packageList}`
CommandString(entry) == entry.key \o <<" ">> \o Join(entry.packages, " ")

\* variant: an empty upgrade set falls back to the full lock update
generateCMDs_lockWhenEmpty(deps) ==
  LET packagesByCMD == CollectPackages(deps, <<>>)
  IN IF deps = <<>> THEN <<ryeUpdateLockCMD>>
     ELSE [i \in DOMAIN packagesByCMD |-> CommandString(packagesByCMD[i])]

generateCMDs(deps) ==
  LET packagesByCMD == CollectPackages(deps, <<>>)
  IN [i \in DOMAIN packagesByCMD |-> CommandString(packagesByCMD[i])]

\* ----------------------------------------------------------------- process
\* longest dependency list passed to process
MaxPassed == 2
\* longest tool.rye.dev-dependencies list
MaxDevDeps == 2
\* longest tool.rye.sources list
MaxSources == 2

\* PypiDatasource.defaultURL
defaultURL == "https://pypi.org/pypi/"

\* an optional property of the project: absent, or present with a value
Missing == [present |-> FALSE]
Present(v) == [present |-> TRUE, value |-> v]

\* dependencies as extractPackageFile hands them to the processor
PassedPool ==
  { [depName |-> "dep1", depType |-> depTypes.dependencies,
     registryUrls |-> Undefined],
    [depName |-> "dep2", depType |-> depTypes.optionalDependencies,
     registryUrls |-> <<"https://example.com/simple">>] }

PassedLists == UNION { [1..n -> PassedPool] : n \in 0..MaxPassed }

DevDepLists == UNION { [1..n -> {"dev1", "dev2"}] : n \in 0..MaxDevDeps }

SourcePool ==
  { [name |-> "pypi", url |-> "https://pypi.example.com/simple"],
    [name |-> "private", url |-> "https://private.example.com/simple"],
    [name |-> "mirror", url |-> "https://mirror.example.com/simple"] }

SourceLists == UNION { [1..n -> SourcePool] : n \in 0..MaxSources }

\* project.tool?.rye: missing, or a section with optional dev-dependencies
\* and optional sources
RyeSections ==
  { [devDependencies |-> d, sources |-> s] :
      d \in {Missing} \cup { Present(l) : l \in DevDepLists },
      s \in {Missing} \cup { Present(l) : l \in SourceLists } }

Projects == { [rye |-> r] : r \in {Missing} \cup { Present(x) : x \in RyeSections } }

\* parseDependencyList(depType, list) of ../utils: one dependency of that
\* depType per entry, none for a missing list
parseDependencyList(depType, list) ==
  IF ~list.present THEN <<>>
  ELSE [i \in DOMAIN list.value |->
          [depName |-> list.value[i], depType |-> depType,
           registryUrls |-> Undefined]]

\* ryeSources.some((value) => value.name === 'pypi')
containsPyPiUrl(ryeSources) ==
  \E i \in DOMAIN ryeSources : ryeSources[i].name = "pypi"

\* variant: the default URL is pushed whatever the sources name
registryUrlsOf_alwaysDefault(ryeSources) ==
  <<defaultURL>> \o [i \in DOMAIN ryeSources |-> ryeSources[i].url]

\* the registryUrls list built from the sources
registryUrlsOf(ryeSources) ==
  (IF ~containsPyPiUrl(ryeSources) THEN <<defaultURL>> ELSE <<>>)
    \o [i \in DOMAIN ryeSources |-> ryeSources[i].url]

\* RyeProcessor.process: the list it returns (the array passed in, which
\* push extends in place)
process(proj, passed) ==
  IF ~proj.rye.present THEN passed
  ELSE LET rye == proj.rye.value
           pushed == passed \o parseDependencyList(depTypes.ryeDevDependencies,
                                                   rye.devDependencies)
       IN IF ~rye.sources.present THEN pushed
          ELSE [i \in DOMAIN pushed |->
                  [pushed[i] EXCEPT
                     !.registryUrls = registryUrlsOf(rye.sources.value)]]

VARIABLES
  project,                      \* the PyProject passed to process
  passedDeps,                   \* the dependency list as it was passed
  processDeps,                  \* deps: that array, which process changes in place
  processResult                 \* what process returned

processVars == <<project, passedDeps, processDeps, processResult>>

\* no call of process is under way
ProcessIdle ==
  /\ project = [rye |-> Missing]
  /\ passedDeps = <<>>
  /\ processDeps = <<>>
  /\ processResult = [tag |-> "pending"]

\* --------------------------------------------------------- updateArtifacts
VARIABLES
  updatedDeps,                  \* updateArtifact.updatedDeps
  updateType,                   \* config.updateType
  fs,                           \* the two lock files on disk: path -> content
  run,                          \* invocations of updateArtifacts started so far
  pc,                           \* the await the current invocation is at
  existingLockFileContent,
  existingDevLockFileContent,
  cmds,
  newLockContent,
  newDevLockContent,
  fileChanges,
  result,                       \* what the invocation returned or threw
  execCalls,                    \* calls of exec made by the current invocation
  execCmds,                     \* the command list handed to exec
  execStatus,                   \* how the call of exec ended
  preFs,                        \* the lock files as the invocation found them
  thrownBy,                     \* the awaited call that rejected, if one did
  thrownMsg                     \* the message of that rejection

inputs == <<updatedDeps, updateType>>
locals == <<existingLockFileContent, existingDevLockFileContent, cmds,
            newLockContent, newDevLockContent, fileChanges>>
runner == <<execCalls, execCmds, execStatus>>
caught == <<thrownBy, thrownMsg>>
artifactVars ==
  <<updatedDeps, updateType, fs, run, pc, existingLockFileContent,
    existingDevLockFileContent, cmds, newLockContent, newDevLockContent,
    fileChanges, result, execCalls, execCmds, execStatus, preFs,
    thrownBy, thrownMsg>>
vars == <<artifactVars, processVars>>

\* values of result
Pending == [tag |-> "pending"]
Null == [tag |-> "null"]
Returned(list) == [tag |-> "list", items |-> list]
Thrown(m) == [tag |-> "throw", err |-> m]

isLockFileMaintenance == updateType = "lockFileMaintenance"

\* variant: the run continues when no lock file is defined
NoLockFile_continue(lockContent, devLockContent) == FALSE

\* variant: the early return is taken when either lock file is missing
NoLockFile_either(lockContent, devLockContent) ==
  lockContent = Absent \/ devLockContent = Absent

\* the condition of the early return: no lock file is defined
NoLockFile(lockContent, devLockContent) ==
  lockContent = Absent /\ devLockContent = Absent

\* variant: lockFileMaintenance also updates the packages of updatedDeps
BuildCmds_alsoPackages(maintenance, deps) ==
  IF maintenance THEN <<ryeUpdateLockCMD>> \o generateCMDs(deps)
  ELSE generateCMDs(deps)

\* the command list built for exec
BuildCmds(maintenance, deps) ==
  IF maintenance THEN <<ryeUpdateLockCMD>> ELSE generateCMDs(deps)

\* variant: a lock file the tool created is not seen as changed
IsChanged_existingOnly(existing, new) == existing # Absent /\ existing # new

\* existingLockFileContent !== newLockContent
IsChanged(existing, new) == existing # new

\* variant: the record of the dev lock names the prod lock (a pasted block)
FileAddition_prodPath(path, contents) ==
  [file |-> [type |-> "addition", path |-> lockFileName, contents |-> contents]]

FileAddition(path, contents) ==
  [file |-> [type |-> "addition", path |-> path, contents |-> contents]]

ArtifactError(lockFile, stderr) ==
  [artifactError |-> [lockFile |-> lockFile, stderr |-> stderr]]

\* variant: the catch block reports the prod lock file only
ArtifactErrors_prodOnly(message) == <<ArtifactError(lockFileName, message)>>

\* variant: the catch block reports the dev lock file first
ArtifactErrors_devFirst(message) ==
  <<ArtifactError(devLockFileName, message), ArtifactError(lockFileName, message)>>

\* the two records the catch block returns
ArtifactErrors(message) ==
  <<ArtifactError(lockFileName, message), ArtifactError(devLockFileName, message)>>

\* err.message === TEMPORARY_ERROR
IsTemporary(message) == message = TEMPORARY_ERROR

\* variant: the catch block has no rethrow
Catch_swallows(message) == Returned(ArtifactErrors(message))

\* the catch block: rethrow a temporary error, report any other one
Catch(message) ==
  IF IsTemporary(message) THEN Thrown(message)
  ELSE Returned(ArtifactErrors(message))

\* variant: return fileChanges
ReturnChanges_emptyList(changes) == Returned(changes)

\* return fileChanges.length ? fileChanges : null
ReturnChanges(changes) == IF Len(changes) > 0 THEN Returned(changes) ELSE Null

Init ==
  /\ updatedDeps \in UpgradeSets
  /\ updateType \in UpdateTypes
  /\ fs \in [LockFiles -> MaybeContents]
  /\ run = 0
  /\ pc = "idle"
  /\ existingLockFileContent = Unread
  /\ existingDevLockFileContent = Unread
  /\ cmds = <<>>
  /\ newLockContent = Unread
  /\ newDevLockContent = Unread
  /\ fileChanges = <<>>
  /\ result = Pending
  /\ execCalls = 0
  /\ execCmds = <<>>
  /\ execStatus = "none"
  /\ preFs = fs
  /\ thrownBy = "none"
  /\ thrownMsg = ""
  /\ ProcessIdle

\* the caller invokes updateArtifacts (again, with the same inputs)
Invoke ==
  /\ pc \in {"idle", "done"}
  /\ run < MaxRuns
  /\ run' = run + 1
  /\ pc' = "readLock"
  /\ existingLockFileContent' = Unread
  /\ existingDevLockFileContent' = Unread
  /\ cmds' = <<>>
  /\ newLockContent' = Unread
  /\ newDevLockContent' = Unread
  /\ fileChanges' = <<>>
  /\ result' = Pending
  /\ execCalls' = 0
  /\ execCmds' = <<>>
  /\ execStatus' = "none"
  /\ preFs' = fs
  /\ thrownBy' = "none"
  /\ thrownMsg' = ""
  /\ UNCHANGED <<processVars, inputs, fs>>

\* an awaited call rejects with message m: control goes to the catch block
Raise(m) ==
  /\ thrownBy' = pc
  /\ thrownMsg' = m
  /\ result' = Catch(m)
  /\ pc' = "done"

\* await readLocalFile(lockFileName)
ReadLock ==
  /\ pc = "readLock"
  /\ existingLockFileContent' = fs[lockFileName]
  /\ pc' = "readDevLock"
  /\ UNCHANGED <<processVars, inputs, fs, run, existingDevLockFileContent, cmds,
                 newLockContent, newDevLockContent, fileChanges, result,
                 runner, preFs, caught>>

ReadLockThrows ==
  /\ pc = "readLock"
  /\ \E m \in Messages : Raise(m)
  /\ UNCHANGED <<processVars, inputs, fs, run, locals, runner, preFs>>

\* await readLocalFile(devLockFileName), then the early return or the
\* building of the command list, up to the call of exec
ReadDevLock ==
  /\ pc = "readDevLock"
  /\ existingDevLockFileContent' = fs[devLockFileName]
  /\ IF NoLockFile(existingLockFileContent, fs[devLockFileName])
     THEN /\ result' = Null
          /\ pc' = "done"
          /\ cmds' = cmds
     ELSE /\ cmds' = BuildCmds(isLockFileMaintenance, updatedDeps)
          /\ pc' = "exec"
          /\ result' = result
  /\ UNCHANGED <<processVars, inputs, fs, run, existingLockFileContent, newLockContent,
                 newDevLockContent, fileChanges, runner, preFs, caught>>

ReadDevLockThrows ==
  /\ pc = "readDevLock"
  /\ \E m \in Messages : Raise(m)
  /\ UNCHANGED <<processVars, inputs, fs, run, locals, runner, preFs>>

\* await exec(cmds, execOptions): the tool may rewrite either lock file
Exec ==
  /\ pc = "exec"
  /\ fs' \in [LockFiles -> MaybeContents]
  /\ execCalls' = execCalls + 1
  /\ execCmds' = cmds
  /\ execStatus' = "ok"
  /\ pc' = "readNewLock"
  /\ UNCHANGED <<processVars, inputs, run, locals, result, preFs, caught>>

\* variant: a rejection of exec is dropped and the run goes on to the reads
ExecThrows_continues ==
  /\ pc = "exec"
  /\ fs' \in [LockFiles -> MaybeContents]
  /\ execCalls' = execCalls + 1
  /\ execCmds' = cmds
  /\ execStatus' = "failed"
  /\ pc' = "readNewLock"
  /\ UNCHANGED <<processVars, inputs, run, locals, result, preFs, caught>>

ExecThrows ==
  /\ pc = "exec"
  /\ fs' \in [LockFiles -> MaybeContents]
  /\ execCalls' = execCalls + 1
  /\ execCmds' = cmds
  /\ execStatus' = "failed"
  /\ \E m \in Messages : Raise(m)
  /\ UNCHANGED <<processVars, inputs, run, locals, preFs>>

\* await readLocalFile(lockFileName) after the run, and the prod lock's diff
ReadNewLock ==
  /\ pc = "readNewLock"
  /\ newLockContent' = fs[lockFileName]
  /\ fileChanges' =
       IF IsChanged(existingLockFileContent, fs[lockFileName])
       THEN Append(fileChanges, FileAddition(lockFileName, fs[lockFileName]))
       ELSE fileChanges
  /\ pc' = "readNewDevLock"
  /\ UNCHANGED <<processVars, inputs, fs, run, existingLockFileContent,
                 existingDevLockFileContent, cmds, newDevLockContent, result,
                 runner, preFs, caught>>

ReadNewLockThrows ==
  /\ pc = "readNewLock"
  /\ \E m \in Messages : Raise(m)
  /\ UNCHANGED <<processVars, inputs, fs, run, locals, runner, preFs>>

\* await readLocalFile(devLockFileName) after the run, the dev lock's diff
\* and the return
ReadNewDevLock ==
  /\ pc = "readNewDevLock"
  /\ newDevLockContent' = fs[devLockFileName]
  /\ LET changes ==
           IF IsChanged(existingDevLockFileContent, fs[devLockFileName])
           THEN Append(fileChanges,
                       FileAddition(devLockFileName, fs[devLockFileName]))
           ELSE fileChanges
     IN /\ fileChanges' = changes
        /\ result' = ReturnChanges(changes)
  /\ pc' = "done"
  /\ UNCHANGED <<processVars, inputs, fs, run, existingLockFileContent,
                 existingDevLockFileContent, cmds, newLockContent, runner,
                 preFs, caught>>

ReadNewDevLockThrows ==
  /\ pc = "readNewDevLock"
  /\ \E m \in Messages : Raise(m)
  /\ UNCHANGED <<processVars, inputs, fs, run, locals, runner, preFs>>

Next ==
  \/ Invoke
  \/ ReadLock
  \/ ReadLockThrows
  \/ ReadDevLock
  \/ ReadDevLockThrows
  \/ Exec
  \/ ExecThrows
  \/ ReadNewLock
  \/ ReadNewLockThrows
  \/ ReadNewDevLock
  \/ ReadNewDevLockThrows

Spec == Init /\ [][Next]_vars

\* process on every project and dependency list within the bounds; no
\* invocation of updateArtifacts is under way
InitProcess ==
  /\ project \in Projects
  /\ passedDeps \in PassedLists
  /\ processDeps = passedDeps
  /\ processResult = [tag |-> "pending"]
  /\ updatedDeps = <<>>
  /\ updateType = "minor"
  /\ fs = [f \in LockFiles |-> Absent]
  /\ run = 0
  /\ pc = "idle"
  /\ existingLockFileContent = Unread
  /\ existingDevLockFileContent = Unread
  /\ cmds = <<>>
  /\ newLockContent = Unread
  /\ newDevLockContent = Unread
  /\ fileChanges = <<>>
  /\ result = Pending
  /\ execCalls = 0
  /\ execCmds = <<>>
  /\ execStatus = "none"
  /\ preFs = fs
  /\ thrownBy = "none"
  /\ thrownMsg = ""

\* the manager calls process on the extracted dependencies
Process ==
  /\ processResult.tag = "pending"
  /\ processDeps' = process(project, processDeps)
  /\ processResult' = [tag |-> "list", items |-> process(project, processDeps)]
  /\ UNCHANGED <<project, passedDeps, artifactVars>>

NextProcess == Process

SpecProcess == InitProcess /\ [][NextProcess]_vars

\* ----------------------------------------------------------------- claims
\* The descriptor's category, group and bare name as the data model of the
\* specification defines them: an unrecognized category counts as direct, a
\* grouped category carries "<group>/<name>" in depName.
IsGrouped(dep) ==
  dep.depType \in {depTypes.optionalDependencies, depTypes.ryeDevDependencies}

CategoryOf(dep) ==
  IF IsGrouped(dep) THEN dep.depType ELSE depTypes.dependencies

GroupOf(dep) == IF IsGrouped(dep) THEN Split(dep.depName, "/")[1] ELSE <<>>

BareName(dep) ==
  IF IsGrouped(dep) THEN Split(dep.depName, "/")[2] ELSE dep.packageName

PairOf(dep) == <<CategoryOf(dep), GroupOf(dep)>>

Pairs(deps) == { PairOf(deps[i]) : i \in DOMAIN deps }

NamesOfPair(deps, pair) ==
  { BareName(deps[i]) : i \in { j \in DOMAIN deps : PairOf(deps[j]) = pair } }

\* the space-separated segments of a command string
Segments(cmd) == Split(cmd, " ")

\* the package names of the upgrade set that a command string carries
NamesIn(cmd, deps) ==
  { BareName(deps[i]) : i \in DOMAIN deps }
    \cap { Segments(cmd)[k] : k \in DOMAIN Segments(cmd) }

\* exec was handed the output of generateCMDs
TargetedRun == execCalls > 0 /\ ~isLockFileMaintenance

\* C1: for an upgrade set that mixes categories and groups, generateCMDs
\* emits exactly one command string per distinct (category, group) pair,
\* each command carries only the package names of its own pair, and no
\* package name appears in more than one command string.
C1_OneCommandPerPair ==
  (TargetedRun /\ Cardinality(Pairs(updatedDeps)) >= 2) =>
    /\ Len(execCmds) = Cardinality(Pairs(updatedDeps))
    /\ \A pair \in Pairs(updatedDeps) :
         \E i \in DOMAIN execCmds :
           NamesIn(execCmds[i], updatedDeps) = NamesOfPair(updatedDeps, pair)
    /\ \A i, j \in DOMAIN execCmds :
         i # j => NamesIn(execCmds[i], updatedDeps)
                    \cap NamesIn(execCmds[j], updatedDeps) = {}

\* C2: when both lock files are absent as read before the run, the
\* invocation returns null and exec is not called in that run, whatever
\* the update type and the upgrade set.
BothAbsentRead ==
  /\ run >= 1
  /\ preFs[lockFileName] = Absent
  /\ preFs[devLockFileName] = Absent
  /\ existingLockFileContent # Unread
  /\ existingDevLockFileContent # Unread

C2_NoLockFileReturnsNull ==
  BothAbsentRead => (pc = "done" /\ result = Null /\ execCalls = 0)

C2_Witness ==
  /\ BothAbsentRead
  /\ result = Null
  /\ ~isLockFileMaintenance
  /\ Len(updatedDeps) >= 1

\* the two error records for message m, prod lock first
TwoErrorRecords(m) ==
  [tag |-> "list",
   items |-> <<[artifactError |->
                  [lockFile |-> "requirements.lock", stderr |-> m]],
               [artifactError |->
                  [lockFile |-> "requirements-dev.lock", stderr |-> m]]>>]

\* C3: when exec fails with a non-temporary error of message m, the
\* invocation returns exactly two error records, for the prod and the dev
\* lock file, each carrying m, and no change record, whichever lock files
\* existed and whichever commands were run.
C3_ExecFailureTwoErrors ==
  (thrownBy = "exec" /\ thrownMsg # TEMPORARY_ERROR) =>
    (pc = "done" /\ result = TwoErrorRecords(thrownMsg))

C3_Witness ==
  /\ thrownBy = "exec"
  /\ thrownMsg = "disk full"
  /\ preFs[devLockFileName] = Absent
  /\ fs[lockFileName] # preFs[lockFileName]
  /\ result = TwoErrorRecords("disk full")

\* C4: when exec raises the temporary error, the invocation rethrows it:
\* it returns neither error records, change records nor null.
C4_TemporaryErrorRethrown ==
  (thrownBy = "exec" /\ thrownMsg = TEMPORARY_ERROR) =>
    (result.tag = "throw" /\ result.err = TEMPORARY_ERROR)

C4_Witness ==
  /\ thrownBy = "exec"
  /\ thrownMsg = TEMPORARY_ERROR
  /\ execCalls = 1
  /\ result = Thrown(TEMPORARY_ERROR)

\* the change record of lock file f with contents c
ChangeRecord(f, c) ==
  [file |-> [type |-> "addition", path |-> f, contents |-> c]]

\* the positions of the result that hold a change record for lock file f
ChangeRecordsOf(f) ==
  IF result.tag = "list"
  THEN { i \in DOMAIN result.items :
           "file" \in DOMAIN result.items[i] /\ result.items[i].file.path = f }
  ELSE {}

\* lock file f is in the result if and only if the run changed its
\* content, with its path and its content after the run
DiffedIndependently(f) ==
  IF fs[f] # preFs[f]
  THEN /\ Cardinality(ChangeRecordsOf(f)) = 1
       /\ \A i \in ChangeRecordsOf(f) : result.items[i] = ChangeRecord(f, fs[f])
  ELSE ChangeRecordsOf(f) = {}

\* C5, as stated: on a run where exec succeeds (and that returns a result,
\* not the run that rethrows), each lock file has a change
\* record in the result if and only if its content after the run differs
\* from its content before the run (absent counting as a content), and the
\* record carries the file's path and content after the run.
C5_DiffAfterExecSuccess ==
  (pc = "done" /\ result.tag # "throw" /\ execStatus = "ok") =>
    \A f \in LockFiles : DiffedIndependently(f)

\* C5, amended: the same, on a run where exec and both reads that follow it
\* succeed.
C5_DiffAfterExecAndReadsSuccess ==
  (pc = "done" /\ execStatus = "ok" /\ thrownBy = "none") =>
    \A f \in LockFiles : DiffedIndependently(f)

C5_Witness ==
  /\ pc = "done"
  /\ execStatus = "ok"
  /\ thrownBy = "none"
  /\ preFs[lockFileName] = "test content"
  /\ fs[lockFileName] = "changed test content"
  /\ preFs[devLockFileName] = "test content"
  /\ fs[devLockFileName] = "test content"
  /\ result = Returned(<<ChangeRecord(lockFileName, "changed test content")>>)

\* C6: when the update type is lockFileMaintenance and at least one lock
\* file exists, exec is handed exactly one command, the bare 'rye lock',
\* however many descriptors the upgrade set holds.
C6_MaintenanceSingleCommand ==
  ( /\ isLockFileMaintenance
    /\ existingLockFileContent # Unread
    /\ existingDevLockFileContent # Unread
    /\ ~(preFs[lockFileName] = Absent /\ preFs[devLockFileName] = Absent) ) =>
    /\ pc = "exec" \/ execCalls = 1
    /\ cmds = << <<"rye lock">> >>
    /\ execCalls = 1 => execCmds = << <<"rye lock">> >>

C6_Witness ==
  /\ isLockFileMaintenance
  /\ execCalls = 1
  /\ Len(updatedDeps) >= 2
  /\ preFs[lockFileName] = Absent
  /\ execCmds = << <<"rye lock">> >>

\* C7: for a non-empty upgrade set of direct descriptors only,
\* generateCMDs emits exactly one command string: 'rye lock --update'
\* followed by every descriptor's package name, space-joined, in the order
\* of the upgrade set.
DirectOnly(deps) ==
  /\ deps # <<>>
  /\ \A i \in DOMAIN deps : deps[i].depType = depTypes.dependencies

C7_DirectOnlySingleCommand ==
  (TargetedRun /\ DirectOnly(updatedDeps)) =>
    /\ Len(execCmds) = 1
    /\ Segments(execCmds[1]) =
         << <<"rye lock --update">> >>
           \o [i \in DOMAIN updatedDeps |-> updatedDeps[i].packageName]

C7_Witness ==
  /\ TargetedRun
  /\ DirectOnly(updatedDeps)
  /\ Len(updatedDeps) >= 2
  /\ updatedDeps[1].packageName = <<"dep2">>
  /\ updatedDeps[2].packageName = <<"dep1">>
  /\ execCmds = << <<"rye lock --update", " ", "dep2", " ", "dep1">> >>

\* C8: when a read of a lock file before the run fails with a
\* non-temporary error of message m, the invocation returns exactly two
\* error records, for requirements.lock and requirements-dev.lock in that
\* order, each carrying m as stderr, and exec is not called in that run.
C8_PreReadFailureTwoErrors ==
  (thrownBy \in {"readLock", "readDevLock"} /\ thrownMsg # TEMPORARY_ERROR) =>
    (pc = "done" /\ execCalls = 0 /\ result = TwoErrorRecords(thrownMsg))

C8_Witness ==
  /\ thrownBy = "readLock"
  /\ thrownMsg = "test error"
  /\ execCalls = 0
  /\ Len(updatedDeps) = 1
  /\ result.tag = "list"
  /\ result.items[1].artifactError.lockFile = "requirements.lock"
  /\ result.items[2].artifactError.stderr = "test error"

\* a second (or later) invocation has ended, its call of exec left both
\* lock files as the invocation before it had left them
SecondRunNoDrift ==
  /\ run >= 2
  /\ pc = "done"
  /\ execCalls = 1
  /\ fs = preFs

\* C9, as stated: a second invocation with the same inputs whose execution
\* of the tool leaves both lock files as they were after the first run
\* yields the absent result (the run that rethrows yields none).
C9_SecondRunAbsent ==
  (SecondRunNoDrift /\ result.tag # "throw") => result = Null

\* C9, amended: such a second invocation yields no change record: the
\* absent result when exec and the reads succeed, and the outcome of the
\* catch block (two error records, or the rethrown temporary error) when
\* one of them fails.
C9_SecondRunNoChange ==
  SecondRunNoDrift =>
    /\ \A f \in LockFiles : ChangeRecordsOf(f) = {}
    /\ thrownBy = "none" => result = Null
    /\ thrownBy # "none" => result \in {TwoErrorRecords(thrownMsg),
                                        [tag |-> "throw", err |-> thrownMsg]}

C9_Witness ==
  /\ SecondRunNoDrift
  /\ thrownBy = "none"
  /\ execStatus = "ok"
  /\ fs[lockFileName] = "changed test content"
  /\ fs[devLockFileName] = Absent
  /\ ~isLockFileMaintenance
  /\ result = Null

\* C10: for an upgrade set of dev-group descriptors of one group g with
\* depName "g/<name>", generateCMDs emits a single command string made of
\* the update prefix, the dev-group flag carrying g, then the bare names
\* space-joined in the order of the upgrade set.
AllDevOfGroup(deps, g) ==
  /\ deps # <<>>
  /\ \A i \in DOMAIN deps :
       /\ deps[i].depType = depTypes.ryeDevDependencies
       /\ Len(Split(deps[i].depName, "/")) = 2
       /\ Split(deps[i].depName, "/")[1] = g

C10_DevGroupFlag ==
  TargetedRun =>
    \A g \in { GroupOf(updatedDeps[i]) : i \in DOMAIN updatedDeps } :
      AllDevOfGroup(updatedDeps, g) =>
        /\ Len(execCmds) = 1
        /\ LET segs == Segments(execCmds[1])
               n == Len(updatedDeps)
           IN /\ Len(segs) > n + 1
              /\ segs[1] = <<"rye lock --update">>
              /\ SubSeq(segs, Len(segs) - n + 1, Len(segs)) =
                   [i \in DOMAIN updatedDeps |-> BareName(updatedDeps[i])]
              /\ \E k \in 2..(Len(segs) - n) : segs[k] = g

\* both reads before the run completed and found exactly one lock file
OneLockFileRead ==
  /\ existingLockFileContent # Unread
  /\ existingDevLockFileContent # Unread
  /\ (preFs[lockFileName] = Absent) # (preFs[devLockFileName] = Absent)

\* the invocation returned at the early return
EarlyReturn ==
  pc = "done" /\ execCalls = 0 /\ thrownBy = "none" /\ run >= 1

\* C11: the early return is taken only when both lock files are absent.
\* When exactly one is absent before the run, exec is called once with the
\* command list built, and afterwards both files are read again and diffed
\* independently, so the result may hold a change record for either path.
C11_OneAbsentNotFatal ==
  /\ EarlyReturn =>
       (preFs[lockFileName] = Absent /\ preFs[devLockFileName] = Absent)
  /\ OneLockFileRead =>
       /\ pc = "exec" \/ execCalls = 1
       /\ cmds = BuildCmds(isLockFileMaintenance, updatedDeps)
       /\ execCalls = 1 => execCmds = cmds
       /\ (pc = "done" /\ thrownBy = "none") =>
            /\ newLockContent = fs[lockFileName]
            /\ newDevLockContent = fs[devLockFileName]
            /\ \A f \in LockFiles : DiffedIndependently(f)

\* the prod lock is absent before the run; the tool creates it and
\* rewrites the dev lock: both paths are reported
C11_Witness ==
  /\ OneLockFileRead
  /\ pc = "done"
  /\ thrownBy = "none"
  /\ execCalls = 1
  /\ preFs[lockFileName] = Absent
  /\ preFs[devLockFileName] = "test content"
  /\ result = Returned(<<ChangeRecord(lockFileName, "test content"),
                         ChangeRecord(devLockFileName, "changed test content")>>)

\* the bare 'rye lock' is one of the commands handed to exec
LockCmdHanded == \E i \in DOMAIN execCmds : execCmds[i] = <<"rye lock">>

\* C12: the bare 'rye lock' is in the command list if and only if the
\* update type is lockFileMaintenance: generateCMDs never emits it and
\* emits no command for an empty upgrade set, so a targeted run with an
\* empty upgrade set hands exec an empty command list.
C12_LockCmdIffMaintenance ==
  execCalls = 1 =>
    /\ LockCmdHanded <=> isLockFileMaintenance
    /\ (~isLockFileMaintenance /\ updatedDeps = <<>>) => execCmds = <<>>

C12_Witness ==
  /\ execCalls = 1
  /\ ~isLockFileMaintenance
  /\ updatedDeps = <<>>
  /\ execCmds = <<>>
  /\ execStatus = "ok"

\* one or two change records, one per path at most, the prod lock first
IsChangeList(items) ==
  /\ Len(items) \in 1..2
  /\ \A i \in DOMAIN items :
       DOMAIN items[i] = {"file"} /\ items[i].file.path \in LockFiles
  /\ Len(items) = 2 =>
       /\ items[1].file.path = "requirements.lock"
       /\ items[2].file.path = "requirements-dev.lock"

\* exactly two error records
IsErrorPair(items) ==
  /\ Len(items) = 2
  /\ \A i \in DOMAIN items : DOMAIN items[i] = {"artifactError"}

\* C13: the result of a run that returns is never an empty list and never
\* mixes the two kinds of record: it is null, or one or two change records
\* (one per path at most, prod before dev), or exactly two error records.
\* A failure after the tool ran, a failed second read after a first file
\* was found changed included, reports error records only.
C13_ResultHomogeneous ==
  (pc = "done" /\ result.tag # "throw") =>
    /\ \/ result = Null
       \/ result.tag = "list" /\ IsChangeList(result.items)
       \/ result.tag = "list" /\ IsErrorPair(result.items)
    /\ thrownBy # "none" => (result.tag = "list" /\ IsErrorPair(result.items))

C13_Witness ==
  /\ pc = "done"
  /\ thrownBy = "readNewDevLock"
  /\ Len(fileChanges) = 1
  /\ fs[devLockFileName] # preFs[devLockFileName]
  /\ result = TwoErrorRecords("disk full")

IsUnrecognized(dep) ==
  dep.depType \notin {depTypes.dependencies, depTypes.optionalDependencies,
                      depTypes.ryeDevDependencies}

IsDirectPath(dep) == dep.depType = depTypes.dependencies \/ IsUnrecognized(dep)

SegmentSet(cmd) == { Segments(cmd)[k] : k \in DOMAIN Segments(cmd) }

\* C14: a descriptor of an unrecognized category takes the direct path: its
\* name is its packageName and it goes into the same command string (bare
\* prefix, no group flag) as the direct descriptors, in upgrade-set order.
C14_UnrecognizedIsDirect ==
  (TargetedRun /\ \E i \in DOMAIN updatedDeps : IsUnrecognized(updatedDeps[i])) =>
    /\ \E k \in DOMAIN execCmds :
         /\ Segments(execCmds[k])[1] = <<"rye lock --update">>
         /\ \A i \in DOMAIN updatedDeps :
              IsDirectPath(updatedDeps[i]) =>
                updatedDeps[i].packageName \in SegmentSet(execCmds[k])
    /\ (\A i \in DOMAIN updatedDeps : IsDirectPath(updatedDeps[i])) =>
         /\ Len(execCmds) = 1
         /\ Segments(execCmds[1]) =
              << <<"rye lock --update">> >>
                \o [i \in DOMAIN updatedDeps |-> updatedDeps[i].packageName]

C14_Witness ==
  /\ TargetedRun
  /\ Len(updatedDeps) >= 2
  /\ updatedDeps[1].depType = "unknown"
  /\ updatedDeps[2].depType = depTypes.dependencies
  /\ updatedDeps[2].packageName = <<"dep1">>
  /\ execCmds = << <<"rye lock --update", " ", "dep9", " ", "dep1">> >>

\* C15: every change record returned carries present contents: no record
\* of type 'addition' has null contents, also when a lock file that
\* existed before the run is missing when read after it.
C15_ChangeRecordHasContents ==
  (pc = "done" /\ result.tag = "list") =>
    \A i \in DOMAIN result.items :
      "file" \in DOMAIN result.items[i] =>
        result.items[i].file.contents # Absent

\* a read of a lock file after the run was started
PostReadStarted ==
  \/ pc \in {"readNewLock", "readNewDevLock"}
  \/ thrownBy \in {"readNewLock", "readNewDevLock"}
  \/ newLockContent # Unread
  \/ newDevLockContent # Unread

\* C16: within one run exec is called at most once, as one call with the
\* whole command list; it is called only after both reads before the run
\* completed; and the reads after the run happen only after that call
\* returned successfully (none in a run where exec was not called or
\* failed).
C16_StepOrdering ==
  /\ execCalls <= 1
  /\ execCalls = 1 =>
       /\ existingLockFileContent = preFs[lockFileName]
       /\ existingDevLockFileContent = preFs[devLockFileName]
       /\ execCmds = cmds
  /\ PostReadStarted => (execCalls = 1 /\ execStatus = "ok")

C16_Witness ==
  /\ pc = "done"
  /\ execCalls = 1
  /\ execStatus = "ok"
  /\ Len(execCmds) = 1
  /\ newLockContent # Unread
  /\ newDevLockContent # Unread

\* process has returned
Processed == processResult.tag = "list"

\* the registry URL list the sources stand for: their URLs in declared
\* order, after the default PyPI URL when no source is named 'pypi'
ExpectedUrls(sources) ==
  LET urls == [i \in DOMAIN sources |-> sources[i].url]
  IN IF \E i \in DOMAIN sources : sources[i].name = "pypi"
     THEN urls
     ELSE <<"https://pypi.org/pypi/">> \o urls

\* the dependencies process appends for the rye dev-dependencies
AppendedCount(rye) ==
  IF rye.devDependencies.present THEN Len(rye.devDependencies.value) ELSE 0

\* C17: process returns the dependency list unchanged when the project has
\* no rye section; with a rye section that has sources, every returned
\* dependency, passed in or appended, gets the same registryUrls: the
\* source URLs in declared order, preceded by the default PyPI URL if and
\* only if no source is named 'pypi'; with a rye section without sources
\* no dependency's registryUrls are modified.
C17_ProcessRegistryUrls ==
  Processed =>
    LET out == processResult.items
    IN IF ~project.rye.present THEN out = passedDeps
       ELSE LET rye == project.rye.value
            IN /\ Len(out) = Len(passedDeps) + AppendedCount(rye)
               /\ \A i \in DOMAIN passedDeps :
                    /\ out[i].depName = passedDeps[i].depName
                    /\ out[i].depType = passedDeps[i].depType
               /\ \A i \in DOMAIN out :
                    i > Len(passedDeps) =>
                      /\ out[i].depType = depTypes.ryeDevDependencies
                      /\ out[i].depName =
                           rye.devDependencies.value[i - Len(passedDeps)]
               /\ IF rye.sources.present
                  THEN \A i \in DOMAIN out :
                         out[i].registryUrls = ExpectedUrls(rye.sources.value)
                  ELSE /\ \A i \in DOMAIN passedDeps :
                            out[i].registryUrls = passedDeps[i].registryUrls
                       /\ \A i \in DOMAIN out :
                            i > Len(passedDeps) => out[i].registryUrls = Undefined

\* sources name 'pypi' second: a dependency that came with its own
\* registryUrls and an appended dev dependency both get the two source URLs
C17_Witness ==
  /\ Processed
  /\ project.rye.present
  /\ project.rye.value.sources.present
  /\ Len(project.rye.value.sources.value) = 2
  /\ project.rye.value.sources.value[1].name = "private"
  /\ project.rye.value.sources.value[2].name = "pypi"
  /\ Len(passedDeps) = 1
  /\ passedDeps[1].registryUrls = <<"https://example.com/simple">>
  /\ Len(processResult.items) = 2
  /\ \A i \in 1..2 :
       processResult.items[i].registryUrls =
         <<"https://private.example.com/simple", "https://pypi.example.com/simple">>

====
